---- MODULE Spec2Model ----
(***************************************************************************)
(* Missing-value handling of the house-price pipeline:                     *)
(*   src/src/handle_missing_values.py   the strategies and their context   *)
(*   src/steps/handle_missing_values_step.py   the pipeline step           *)
(*                                                                         *)
(* A DataFrame is a value [index, cols]: the row labels and the ordered    *)
(* columns, each with a name, a dtype ("number" or "object") and one cell  *)
(* per row.  DataFrames live in a heap (store) and are passed by           *)
(* reference, as Python objects are, so that copying and in-place          *)
(* assignment are different things.                                        *)
(***************************************************************************)
EXTENDS Integers, Sequences, FiniteSets, TLC

VARIABLES
    store,    \* the heap: object id -> DataFrame value
    arg,      \* id of the caller's DataFrame, the one passed to handle
    handler,  \* MissingValueHandler._strategy: {} before construction, {s} after
    call,     \* the last call the caller made and how it ended
    given,    \* history: the value of the caller's DataFrame at construction
    asked,    \* history: the arguments of the strategy last handed to the handler
    extracted_data  \* the directory "extracted_data": file name -> content

vars == <<store, arg, handler, call, given, asked, extracted_data>>

(***************************** bounds **************************************)
MaxRows == 3
MaxThresh == 3

(***************************** cells ***************************************)
\* A cell: NaN/None ("nan"), a number n/d in lowest terms, or a string (by index).
Absent == [t |-> "nan", n |-> 0, d |-> 1]

RECURSIVE GCD(_, _)
GCD(a, b) == IF b = 0 THEN a ELSE GCD(b, a % b)

Num(n, d) == LET g == GCD(n, d) IN [t |-> "num", n |-> n \div g, d |-> d \div g]

Str(i) == [t |-> "str", n |-> i, d |-> 1]

notna(c) == c.t # "nan"

Add(a, b) == Num(a.n * b.d + b.n * a.d, a.d * b.d)

Less(a, b) == a.n * b.d < b.n * a.d

(***************************** inputs **************************************)
ColNames == <<"A", "B">>

\* The numbers a numeric cell of each column is drawn from.
NumVals == <<{1, 2}, {4, 6}>>

StrVals == {1}

RangeIndex(n) == [i \in 1..n |-> i - 1]

ColumnsFor(j, n) ==
    {[name |-> ColNames[j], dtype |-> "number", cells |-> c] :
        c \in [1..n -> {Absent} \cup {Num(v, 1) : v \in NumVals[j]}]}
    \cup
    {[name |-> ColNames[j], dtype |-> "object", cells |-> c] :
        c \in [1..n -> {Absent} \cup {Str(s) : s \in StrVals}]}

Datasets ==
    UNION {{[index |-> RangeIndex(n), cols |-> <<ca, cb>>] :
                ca \in ColumnsFor(1, n), cb \in ColumnsFor(2, n)} : n \in 1..MaxRows}

(***************************** column statistics **************************)
Present(cells) == SelectSeq(cells, notna)

RECURSIVE SumCells(_)
SumCells(s) == IF Len(s) = 0 THEN Num(0, 1) ELSE Add(Head(s), SumCells(Tail(s)))

\* A faulty ColMean: the sum is divided by the number of rows, absent ones included.
ColMeanAllRows(cells) ==
    LET p == Present(cells)
    IN  IF Len(p) = 0 THEN Absent
        ELSE LET t == SumCells(p) IN Num(t.n, t.d * Len(cells))

\* DataFrame.mean() of one column (skipna): NaN when no value is present.
ColMean(cells) ==
    LET p == Present(cells)
    IN  IF Len(p) = 0 THEN Absent
        ELSE LET t == SumCells(p) IN Num(t.n, t.d * Len(p))

RECURSIVE Insert(_, _)
Insert(x, s) ==
    IF Len(s) = 0 THEN <<x>>
    ELSE IF Less(Head(s), x) THEN <<Head(s)>> \o Insert(x, Tail(s))
    ELSE <<x>> \o s

RECURSIVE SortCells(_)
SortCells(s) == IF Len(s) = 0 THEN <<>> ELSE Insert(Head(s), SortCells(Tail(s)))

\* A faulty ColMedian: the lower middle value, not the mean of the two middle ones.
ColMedianLower(cells) ==
    LET p == SortCells(Present(cells))
        m == Len(p)
    IN  IF m = 0 THEN Absent ELSE p[(m + 1) \div 2]

\* DataFrame.median() of one column (skipna): NaN when no value is present.
ColMedian(cells) ==
    LET p == SortCells(Present(cells))
        m == Len(p)
    IN  IF m = 0 THEN Absent
        ELSE IF m % 2 = 1 THEN p[(m + 1) \div 2]
        ELSE LET t == Add(p[m \div 2], p[m \div 2 + 1]) IN Num(t.n, t.d * 2)

Occurrences(s, v) == Cardinality({i \in 1..Len(s) : s[i] = v})

\* DataFrame.mode() of one column (dropna): every most frequent value, ascending.
ColMode(cells) ==
    LET p == Present(cells)
        vals == {p[i] : i \in 1..Len(p)}
        top == {v \in vals : \A w \in vals : Occurrences(p, w) <= Occurrences(p, v)}
        pos == {i \in 1..Len(p) : p[i] \in top /\ \A k \in 1..(i - 1) : p[k] # p[i]}
    IN  SortCells([k \in 1..Cardinality(pos) |->
                     p[CHOOSE i \in pos : Cardinality({x \in pos : x <= i}) = k]])

(***************************** DataFrame primitives ************************)
NRows(df) == Len(df.index)

NCols(df) == Len(df.cols)

RECURSIVE Pick(_, _, _)
\* The elements of s at the positions in keep, in their order in s.
Pick(s, keep, i) ==
    IF i > Len(s) THEN <<>>
    ELSE (IF i \in keep THEN <<s[i]>> ELSE <<>>) \o Pick(s, keep, i + 1)

\* df.select_dtypes(include='number').columns: the names of the numeric columns.
SelectDtypesNumber(df) == {df.cols[j].name : j \in {k \in 1..NCols(df) : df.cols[k].dtype = "number"}}

\* df[names]: a new frame of the named columns, in df's order.
GetColumns(df, names) ==
    [index |-> df.index,
     cols |-> Pick(df.cols, {j \in 1..NCols(df) : df.cols[j].name \in names}, 1)]

\* df[names] = value, in place on df: each named column becomes value's column.
SetColumns(df, names, value) ==
    [index |-> df.index,
     cols |-> [j \in 1..NCols(df) |->
                 IF df.cols[j].name \in names
                 THEN value.cols[CHOOSE k \in 1..NCols(value) : value.cols[k].name = df.cols[j].name]
                 ELSE df.cols[j]]]

\* frame.mean(): a Series, column name -> statistic.
FrameMean(df) == [j \in 1..NCols(df) |-> [name |-> df.cols[j].name, value |-> ColMean(df.cols[j].cells)]]

\* frame.median(): a Series, column name -> statistic.
FrameMedian(df) == [j \in 1..NCols(df) |-> [name |-> df.cols[j].name, value |-> ColMedian(df.cols[j].cells)]]

Max(S) == IF S = {} THEN 0 ELSE CHOOSE x \in S : \A y \in S : y <= x

\* frame.mode(): a DataFrame with rows 0..k-1, each column its modes padded with NaN.
FrameMode(df) ==
    LET k == Max({Len(ColMode(df.cols[j].cells)) : j \in 1..NCols(df)})
    IN  [index |-> RangeIndex(k),
         cols |-> [j \in 1..NCols(df) |->
                     LET m == ColMode(df.cols[j].cells)
                     IN  [name |-> df.cols[j].name, dtype |-> df.cols[j].dtype,
                          cells |-> [i \in 1..k |-> IF i <= Len(m) THEN m[i] ELSE Absent]]]]

\* A faulty FillnaSeries: every cell of a column takes the Series' value.
FillnaSeriesAll(df, ser) ==
    [index |-> df.index,
     cols |-> [j \in 1..NCols(df) |->
                 LET c == df.cols[j]
                     hit == {k \in 1..Len(ser) : ser[k].name = c.name}
                 IN  IF hit = {} THEN c
                     ELSE [c EXCEPT !.cells =
                             [i \in 1..NRows(df) |-> ser[CHOOSE k \in hit : TRUE].value]]]]

\* frame.fillna(Series): an absent cell takes the Series' value for its column.
FillnaSeries(df, ser) ==
    [index |-> df.index,
     cols |-> [j \in 1..NCols(df) |->
                 LET c == df.cols[j]
                     hit == {k \in 1..Len(ser) : ser[k].name = c.name}
                 IN  IF hit = {} THEN c
                     ELSE [c EXCEPT !.cells =
                             [i \in 1..NRows(df) |->
                                 IF notna(c.cells[i]) THEN c.cells[i]
                                 ELSE ser[CHOOSE k \in hit : TRUE].value]]]]

\* frame.fillna(DataFrame): an absent cell takes the value at the same row label
\* and column name of the other frame, when the other frame has one.
FillnaFrame(df, other) ==
    [index |-> df.index,
     cols |-> [j \in 1..NCols(df) |->
                 LET c == df.cols[j]
                     hit == {k \in 1..NCols(other) : other.cols[k].name = c.name}
                 IN  IF hit = {} THEN c
                     ELSE LET o == other.cols[CHOOSE k \in hit : TRUE]
                          IN [c EXCEPT !.cells =
                               [i \in 1..NRows(df) |->
                                 LET row == {r \in 1..NRows(other) : other.index[r] = df.index[i]}
                                 IN  IF notna(c.cells[i]) \/ row = {} THEN c.cells[i]
                                     ELSE o.cells[CHOOSE r \in row : TRUE]]]]]

\* The dtype of a column after cells of it were filled with v.
FilledDtype(c, v) ==
    IF c.dtype = "number" /\ v.t # "num" /\ \E i \in 1..Len(c.cells) : ~notna(c.cells[i])
    THEN "object" ELSE c.dtype

\* A faulty FillnaScalar: only the numeric columns are filled, as the statistics do.
FillnaScalarNumeric(df, v) ==
    [index |-> df.index,
     cols |-> [j \in 1..NCols(df) |->
                 LET c == df.cols[j]
                 IN  IF c.dtype # "number" THEN c
                     ELSE [name |-> c.name, dtype |-> FilledDtype(c, v),
                           cells |-> [i \in 1..NRows(df) |->
                                        IF notna(c.cells[i]) THEN c.cells[i] ELSE v]]]]

\* A faulty FillnaScalar: as fillna(v, limit=1), only the first absent cell of a column.
FillnaScalarLimit(df, v) ==
    [index |-> df.index,
     cols |-> [j \in 1..NCols(df) |->
                 LET c == df.cols[j]
                 IN  [name |-> c.name, dtype |-> FilledDtype(c, v),
                      cells |-> [i \in 1..NRows(df) |->
                                   IF ~notna(c.cells[i]) /\ \A k \in 1..(i - 1) : notna(c.cells[k])
                                   THEN v ELSE c.cells[i]]]]]

\* frame.fillna(v), v a scalar: a new frame, every absent cell of every column is v.
FillnaScalar(df, v) ==
    [index |-> df.index,
     cols |-> [j \in 1..NCols(df) |->
                 LET c == df.cols[j]
                 IN  [name |-> c.name, dtype |-> FilledDtype(c, v),
                      cells |-> [i \in 1..NRows(df) |->
                                   IF notna(c.cells[i]) THEN c.cells[i] ELSE v]]]]

\* Non-NA cells of the row at position i / of the column at position j.
CountRow(df, i) == Cardinality({j \in 1..NCols(df) : notna(df.cols[j].cells[i])})

CountCol(df, j) == Cardinality({i \in 1..NRows(df) : notna(df.cols[j].cells[i])})

\* The positions along axis (0: rows, 1: columns) and the non-NA count of each.
Along(df, axis) == IF axis = 0 THEN 1..NRows(df) ELSE 1..NCols(df)

Count(df, axis, p) == IF axis = 0 THEN CountRow(df, p) ELSE CountCol(df, p)

Full(df, axis) == IF axis = 0 THEN NCols(df) ELSE NRows(df)

\* A faulty ThreshMask: the count must exceed the threshold.
ThreshMaskStrict(df, axis, k) == {p \in Along(df, axis) : Count(df, axis, p) > k}

\* dropna's mask for thresh = k: count >= thresh.
ThreshMask(df, axis, k) == {p \in Along(df, axis) : Count(df, axis, p) >= k}

\* dropna's mask for how = 'any': every cell is non-NA.
AnyMask(df, axis) == {p \in Along(df, axis) : Count(df, axis, p) = Full(df, axis)}

\* The masks dropna(axis, thresh) may compute.  The strategy passes thresh=None
\* explicitly.  A pandas whose dropna declares thresh=None takes it as unset and
\* uses how='any'; a pandas whose dropna declares thresh=no_default (1.5 and
\* later) takes None as a given threshold and computes count >= None, which is
\* False for every row or column.  Which one runs is the installation's choice.
DropnaMasks(df, axis, thresh) ==
    IF thresh = {} THEN {AnyMask(df, axis), {}}
    ELSE {ThreshMask(df, axis, CHOOSE k \in thresh : TRUE)}

\* The frame with only the rows (axis 0) or columns (axis 1) in mask; labels kept.
Take(df, axis, mask) ==
    IF axis = 0
    THEN [index |-> Pick(df.index, mask, 1),
          cols |-> [j \in 1..NCols(df) |->
                      [df.cols[j] EXCEPT !.cells = Pick(df.cols[j].cells, mask, 1)]]]
    ELSE [index |-> df.index, cols |-> Pick(df.cols, mask, 1)]

\* frame.dropna(axis=axis, thresh=thresh): the frames it may return.
Dropna(df, axis, thresh) == {Take(df, axis, m) : m \in DropnaMasks(df, axis, thresh)}

(***************************** the heap ************************************)
ObjIds == {1, 2, 3, 4}

\* A fresh object holding value v; ids are handed out smallest first.
Alloc(st, v) ==
    LET id == CHOOSE i \in ObjIds \ DOMAIN st : \A k \in ObjIds \ DOMAIN st : i <= k
    IN  [store |-> (id :> v) @@ st, ref |-> id]

\* A faulty Copy: no copy is made, the name is bound to the caller's object.
CopyAlias(st, ref) == [store |-> st, ref |-> ref]

\* df.copy(): a new object with the same value.
Copy(st, ref) == Alloc(st, st[ref])

\* What is left of the heap once only the objects in roots are still referenced.
Collect(st, roots) == [i \in DOMAIN st \cap roots |-> st[i]]

\* The heap when a call that began with heap st0 ends with heap st: the objects
\* the callee created die with its local names, but for the one in keep.
Leave(st0, st, keep) == Collect(st, DOMAIN st0 \cup keep)

(***************************** strategies **********************************)
ALLOWED_METHODS == {"mean", "median", "mode", "constant"}

\* DropMissingValuesStrategy.__init__: thresh is {} for None, {k} for k.
DropMissingValuesStrategy(axis, thresh) ==
    [kind |-> "drop", axis |-> axis, thresh |-> thresh, method |-> "", fill_value |-> {}]

\* A faulty FillMissingValuesStrategy: an invalid method becomes "mean", as the
\* logged message announces.
FillMissingValuesStrategyDefaulting(method, fill_value) ==
    [kind |-> "fill", axis |-> 0, thresh |-> {},
     method |-> IF method \in ALLOWED_METHODS THEN method ELSE "mean",
     fill_value |-> fill_value]

\* FillMissingValuesStrategy.__init__: an invalid method is logged and stored as
\* given; fill_value is {} for None, {v} for v.
FillMissingValuesStrategy(method, fill_value) ==
    [kind |-> "fill", axis |-> 0, thresh |-> {}, method |-> method, fill_value |-> fill_value]

\* How a handle call ends: the heap, the returned object (0: none), the error.
Returned(st0, st, ref) == [store |-> Leave(st0, st, {ref}), ret |-> ref, err |-> ""]

Raised(st0, st, e) == [store |-> Leave(st0, st, {}), ret |-> 0, err |-> e]

\* DropMissingValuesStrategy.handle(df): dropna returns a new object.
DropHandle(self, st, df) ==
    {LET r == Alloc(st, v) IN Returned(st, r.store, r.ref) :
        v \in Dropna(st[df], self.axis, self.thresh)}

\* FillMissingValuesStrategy.handle(df).
FillHandle(self, st, df) ==
    LET c == Copy(st, df)
        df_cleaned == c.ref
        frame == c.store[df_cleaned]
        numeric_columns == SelectDtypesNumber(frame)
        sub == GetColumns(frame, numeric_columns)
        assign(value) == [c.store EXCEPT ![df_cleaned] = SetColumns(frame, numeric_columns, value)]
    IN  IF self.method = "mean"
        THEN {Returned(st, assign(FillnaSeries(sub, FrameMean(sub))), df_cleaned)}
        ELSE IF self.method = "median"
        THEN {Returned(st, assign(FillnaSeries(sub, FrameMedian(sub))), df_cleaned)}
        ELSE IF self.method = "mode"
        THEN {Returned(st, assign(FillnaFrame(sub, FrameMode(sub))), df_cleaned)}
        ELSE IF self.method = "constant"
        THEN IF self.fill_value = {}
             \* fillna(None): "Must specify a fill 'value' or 'method'."
             THEN {Raised(st, c.store, "ValueError")}
             ELSE LET r == Alloc(c.store, FillnaScalar(frame, CHOOSE v \in self.fill_value : TRUE))
                  IN  {Returned(st, r.store, r.ref)}
        ELSE {Returned(st, c.store, df_cleaned)}

\* strategy.handle(df), dispatched on the strategy's class.
Handle(self, st, df) ==
    IF self.kind = "drop" THEN DropHandle(self, st, df) ELSE FillHandle(self, st, df)

(***************************** the pipeline step ***************************)
SupportedNames == {"drop", "mean", "median", "mode", "constant"}

StrategyNames == SupportedNames \cup {"knn", "Mean"}

\* How a step call ends: as a handle call, and the strategy the step built.
StepEnd(o, built) == [store |-> o.store, ret |-> o.ret, err |-> o.err, built |-> built]

\* A faulty handle_missing_values_step: an unknown name falls back to "mean".
StepDefaulting(st, data, strategy) ==
    LET s == IF strategy = "drop" THEN DropMissingValuesStrategy(0, {})
             ELSE IF strategy \in {"mean", "median", "mode", "constant"}
             THEN FillMissingValuesStrategy(strategy, {})
             ELSE FillMissingValuesStrategy("mean", {})
    IN  {StepEnd(o, {s}) : o \in Handle(s, st, data)}

\* handle_missing_values_step(data, strategy).
handle_missing_values_step(st, data, strategy) ==
    IF strategy = "drop"
    THEN LET s == DropMissingValuesStrategy(0, {})
         IN  {StepEnd(o, {s}) : o \in Handle(s, st, data)}
    ELSE IF strategy \in {"mean", "median", "mode", "constant"}
    THEN LET s == FillMissingValuesStrategy(strategy, {})
         IN  {StepEnd(o, {s}) : o \in Handle(s, st, data)}
    ELSE {StepEnd(Raised(st, st, "ValueError"), {})}

(***************************** the state machine ***************************)
Thresholds == {{}} \cup {{k} : k \in 0..MaxThresh}

FillValues == {Num(9, 1), Str(2)}

Strategies ==
    {DropMissingValuesStrategy(a, t) : a \in {0, 1}, t \in Thresholds}
    \cup {FillMissingValuesStrategy(m, {}) : m \in ALLOWED_METHODS \cup {"knn"}}
    \cup {FillMissingValuesStrategy("constant", {v}) : v \in FillValues}

\* The directory before anything was extracted into it.
EmptyDir == [f \in {} |-> 0]

Idle == [op |-> "none", name |-> "", status |-> "none", err |-> "", ret |-> 0, built |-> {}, pass |-> 0]

Ended(op, name, o, built, pass) ==
    [op |-> op, name |-> name, status |-> IF o.err = "" THEN "returned" ELSE "raised",
     err |-> o.err, ret |-> o.ret, built |-> built, pass |-> pass]

\* The caller holds one DataFrame; MissingValueHandler(strategy) is constructed.
Init ==
    /\ given \in Datasets
    /\ store = (1 :> given)
    /\ arg = 1
    /\ handler \in {{s} : s \in Strategies}
    /\ call = Idle
    /\ asked = {}
    /\ extracted_data = EmptyDir

\* result = MissingValueHandler.handle_missing_values(df), the handler's first call:
\* it hands df to the strategy it holds.
HandleMissingValues ==
    /\ handler # {}
    /\ call.pass = 0
    /\ \E o \in Handle(CHOOSE s \in handler : TRUE, store, arg) :
        /\ store' = o.store
        /\ call' = Ended("handle", call.name, o, {}, 1)
    /\ UNCHANGED <<arg, handler, given, asked, extracted_data>>

Next == HandleMissingValues

Spec == Init /\ [][Next]_vars

\* The pipeline step: no handler outlives a call.
InitStep ==
    /\ given \in Datasets
    /\ store = (1 :> given)
    /\ arg = 1
    /\ handler = {}
    /\ call = Idle
    /\ asked = {}
    /\ extracted_data = EmptyDir

\* cleaned_df = handle_missing_values_step(data, strategy): the pipeline calls the
\* step once on the data it ingested.
Step ==
    /\ call.pass = 0
    /\ \E name \in StrategyNames :
        \E o \in handle_missing_values_step(store, arg, name) :
            /\ store' = o.store
            /\ call' = Ended("step", name, o, o.built, 1)
    /\ UNCHANGED <<arg, handler, given, asked, extracted_data>>

NextStep == Step

SpecStep == InitStep /\ [][NextStep]_vars

\* fill-constant applied to a dataset and then to its own result.
InitTwice ==
    /\ given \in Datasets
    /\ store = (1 :> given)
    /\ arg = 1
    /\ handler \in {{FillMissingValuesStrategy("constant", f)} : f \in {{}} \cup {{v} : v \in FillValues}}
    /\ call = Idle
    /\ asked = {}
    /\ extracted_data = EmptyDir

\* first = handler.handle_missing_values(df)
FirstPass ==
    /\ call.pass = 0
    /\ \E o \in Handle(CHOOSE s \in handler : TRUE, store, arg) :
        /\ store' = o.store
        /\ call' = Ended("handle", "", o, {}, 1)
    /\ UNCHANGED <<arg, handler, given, asked, extracted_data>>

\* second = handler.handle_missing_values(first)
SecondPass ==
    /\ call.pass = 1
    /\ call.status = "returned"
    /\ \E o \in Handle(CHOOSE s \in handler : TRUE, store, call.ret) :
        /\ store' = o.store
        /\ arg' = call.ret
        /\ call' = Ended("handle", "", o, {}, 2)
    /\ UNCHANGED <<handler, given, asked, extracted_data>>

NextTwice == FirstPass \/ SecondPass

SpecTwice == InitTwice /\ [][NextTwice]_vars

(***************************** the handler over time ***********************)
MaxHandlerRows == 2

HandlerDatasets == {d \in Datasets : NRows(d) <= MaxHandlerRows}

\* The arguments a caller builds a strategy from.
Args(kind, axis, thresh, method, fill_value) ==
    [kind |-> kind, axis |-> axis, thresh |-> thresh, method |-> method, fill_value |-> fill_value]

HandlerArgs ==
    {Args("drop", a, t, "", {}) : a \in {0, 1}, t \in {{}, {1}}}
    \cup {Args("fill", 0, {}, m, {}) : m \in ALLOWED_METHODS \cup {"knn"}}
    \cup {Args("fill", 0, {}, "constant", {v}) : v \in FillValues}

\* The strategy object the caller constructs from the arguments.
Build(a) ==
    IF a.kind = "drop" THEN DropMissingValuesStrategy(a.axis, a.thresh)
    ELSE FillMissingValuesStrategy(a.method, a.fill_value)

\* A faulty set_strategy: the assignment is lost and the old strategy stays.
set_strategy_lost(_strategy, strategy) == _strategy

\* MissingValueHandler.set_strategy(strategy): the new value of self._strategy.
set_strategy(_strategy, strategy) == strategy

\* The caller holds one DataFrame and no handler yet.
InitHandler ==
    /\ given \in HandlerDatasets
    /\ store = (1 :> given)
    /\ arg = 1
    /\ handler = {}
    /\ call = Idle
    /\ asked = {}
    /\ extracted_data = EmptyDir

\* handler = MissingValueHandler(strategy)
Construct ==
    /\ handler = {}
    /\ \E a \in HandlerArgs :
        /\ asked' = {a}
        /\ handler' = {Build(a)}
    /\ UNCHANGED <<store, arg, call, given, extracted_data>>

\* handler.set_strategy(strategy); the caller lets go of the result it held.
SetStrategy ==
    /\ handler # {}
    /\ \E a \in HandlerArgs :
        /\ asked' = {a}
        /\ handler' = {set_strategy(CHOOSE s \in handler : TRUE, Build(a))}
    /\ store' = Collect(store, {arg})
    /\ call' = [Idle EXCEPT !.name = "switched", !.pass = call.pass]
    /\ UNCHANGED <<arg, given, extracted_data>>

\* result = handler.handle_missing_values(df), a later call: result is rebound.
HandleMissingValuesAgain ==
    /\ handler # {}
    /\ call.pass >= 1
    /\ \E o \in Handle(CHOOSE s \in handler : TRUE, Collect(store, {arg}), arg) :
        /\ store' = o.store
        /\ call' = Ended("handle", call.name, o, {}, 2)
    /\ UNCHANGED <<arg, handler, given, asked, extracted_data>>

NextHandler == Construct \/ SetStrategy \/ HandleMissingValues \/ HandleMissingValuesAgain

SpecHandler == InitHandler /\ [][NextHandler]_vars

(***************************** ingestion ***********************************)
\* A file name or path: its stem and its extension, "a.csv" is File("a", "csv").
File(stem, ext) == [stem |-> stem, ext |-> ext]

\* The paths a caller passes, and the members of the archive at each: file name
\* -> content, where content k > 0 is the CSV text of table k and 0 is other text.
Paths ==
    {File("one", "zip"), File("other", "zip"), File("again", "zip"), File("both", "zip"),
     File("notes", "zip"), File("mixed", "zip"), File("empty", "zip"), File("table", "csv")}

Members(stem) ==
    CASE stem = "one" -> (File("a", "csv") :> 1)
      [] stem = "other" -> (File("b", "csv") :> 2)
      [] stem = "again" -> (File("a", "csv") :> 2)
      [] stem = "both" -> (File("a", "csv") :> 1) @@ (File("b", "csv") :> 2)
      [] stem = "notes" -> (File("readme", "txt") :> 0)
      [] stem = "mixed" -> (File("b", "csv") :> 1) @@ (File("readme", "txt") :> 0)
      [] OTHER -> EmptyDir

\* pd.read_csv of the CSV text of table k: one row, a number and an empty field.
read_csv(k) ==
    [index |-> RangeIndex(1),
     cols |-> <<[name |-> "A", dtype |-> "number", cells |-> <<Num(k, 1)>>],
                [name |-> "B", dtype |-> "number", cells |-> <<Absent>>]>>]

\* zip_ref.extractall(dir): the members are written over what the directory holds.
extractall(dir, members) ==
    [f \in DOMAIN dir \cup DOMAIN members |-> IF f \in DOMAIN members THEN members[f] ELSE dir[f]]

\* How an ingest call ends: as a handle call, and the directory it leaves.
IngestEnd(o, dir) == [store |-> o.store, ret |-> o.ret, err |-> o.err, dir |-> dir]

\* ZipDataIngestor.ingest(file_path).
ingest(st, dir, file_path) ==
    IF file_path.ext # "zip" THEN IngestEnd(Raised(st, st, "ValueError"), dir)
    ELSE LET extracted == extractall(dir, Members(file_path.stem))
             extracted_files == DOMAIN extracted
             csv_files == {f \in extracted_files : f.ext = "csv"}
         IN  IF Cardinality(csv_files) = 0
             THEN IngestEnd(Raised(st, st, "FileNotFoundError"), extracted)
             ELSE IF Cardinality(csv_files) > 1
             THEN IngestEnd(Raised(st, st, "ValueError"), extracted)
             ELSE LET r == Alloc(st, read_csv(extracted[CHOOSE f \in csv_files : TRUE]))
                  IN  IngestEnd(Returned(st, r.store, r.ref), extracted)

\* data_ingestion_step(file_path): the factory is asked with the text after the
\* last dot and has an ingestor for "zip" only.
data_ingestion_step(st, dir, file_path) ==
    IF file_path.ext = "zip" THEN ingest(st, dir, file_path)
    ELSE IngestEnd(Raised(st, st, "ValueError"), dir)

\* A fresh checkout: no DataFrame yet, nothing extracted yet.
InitIngest ==
    /\ given = [index |-> <<>>, cols |-> <<>>]
    /\ store = EmptyDir
    /\ arg = 0
    /\ handler = {}
    /\ call = Idle
    /\ asked = {}
    /\ extracted_data = EmptyDir

IngestCall(op, o, p) ==
    /\ store' = o.store
    /\ extracted_data' = o.dir
    /\ call' = Ended(op, p.stem, o, {}, IF call.pass = 0 THEN 1 ELSE 2)
    /\ UNCHANGED <<arg, handler, given, asked>>

\* df = ZipDataIngestor().ingest(file_path); an earlier result is let go.
Ingest == \E p \in Paths : IngestCall("ingest", ingest(EmptyDir, extracted_data, p), p)

\* raw_data = data_ingestion_step(file_path); an earlier result is let go.
IngestStep == \E p \in Paths : IngestCall("step", data_ingestion_step(EmptyDir, extracted_data, p), p)

NextIngest == Ingest \/ IngestStep

SpecIngest == InitIngest /\ [][NextIngest]_vars

(***************************** vocabulary of the properties ****************)
In == given

Out == store[call.ret]

TheStrategy == CHOOSE s \in handler : TRUE

HandleReturned == call.op = "handle" /\ call.status = "returned"

FillReturned(method) ==
    HandleReturned /\ TheStrategy.kind = "fill" /\ TheStrategy.method = method

DropReturned(axis) ==
    HandleReturned /\ TheStrategy.kind = "drop" /\ TheStrategy.axis = axis

\* Same row labels, same column names in the same order.
SameShape(a, b) ==
    /\ a.index = b.index
    /\ NCols(a) = NCols(b)
    /\ \A j \in 1..NCols(a) : a.cols[j].name = b.cols[j].name

AbsentAt(df, j, i) == df.cols[j].cells[i].t = "nan"

HasAbsent(df) == \E j \in 1..NCols(df) : \E i \in 1..NRows(df) : AbsentAt(df, j, i)

\* The positions of the non-absent cells of a column, whose values are integers.
PresentAt(cells) == {i \in 1..Len(cells) : cells[i].t # "nan"}

RECURSIVE SumAt(_, _)
SumAt(cells, P) ==
    IF P = {} THEN 0
    ELSE LET i == CHOOSE x \in P : TRUE IN cells[i].n + SumAt(cells, P \ {i})

\* c is the arithmetic mean of the non-absent cells: c * count = sum.  A column
\* with no non-absent cell has no mean, which pandas writes NaN: the absent marker.
IsMean(c, cells) ==
    LET P == PresentAt(cells)
    IN  IF P = {} THEN c = Absent
        ELSE c.t = "num" /\ c.n * Cardinality(P) = SumAt(cells, P) * c.d

\* c is the median of the non-absent cells: halfway between the least value with
\* at least half of the values at or below it and the greatest value with at
\* least half of them at or above it.  No non-absent cell: NaN, as for the mean.
IsMedian(c, cells) ==
    LET P == PresentAt(cells)
        V == {cells[i].n : i \in P}
        atMost(v) == Cardinality({i \in P : cells[i].n <= v})
        atLeast(v) == Cardinality({i \in P : cells[i].n >= v})
        lo == CHOOSE v \in V : 2 * atMost(v) >= Cardinality(P)
                                 /\ \A w \in V : 2 * atMost(w) >= Cardinality(P) => v <= w
        hi == CHOOSE v \in V : 2 * atLeast(v) >= Cardinality(P)
                                 /\ \A w \in V : 2 * atLeast(w) >= Cardinality(P) => w <= v
    IN  IF P = {} THEN c = Absent
        ELSE c.t = "num" /\ 2 * c.n = (lo + hi) * c.d

\* c is a mode of the non-absent cells: a value no other value occurs more often than.
IsMode(c, cells) ==
    LET P == PresentAt(cells)
        times(v) == Cardinality({i \in P : cells[i] = v})
    IN  IF P = {} THEN c = Absent
        ELSE (\E i \in P : cells[i] = c) /\ \A i \in P : times(cells[i]) <= times(c)

\* The p-th smallest element of K, and the elements of s at the positions K in order.
Nth(K, p) == CHOOSE x \in K : Cardinality({y \in K : y <= x}) = p

Kept(s, K) == [p \in 1..Cardinality(K) |-> s[Nth(K, p)]]

\* out is df with exactly the rows at the positions K, everything else as in df.
IsRowsOf(out, df, K) ==
    /\ out.index = Kept(df.index, K)
    /\ NCols(out) = NCols(df)
    /\ \A j \in 1..NCols(df) :
        /\ out.cols[j].name = df.cols[j].name
        /\ out.cols[j].cells = Kept(df.cols[j].cells, K)

\* out is df with exactly the columns at the positions K, everything else as in df.
IsColumnsOf(out, df, K) ==
    /\ out.index = df.index
    /\ NCols(out) = Cardinality(K)
    /\ \A p \in 1..Cardinality(K) :
        /\ out.cols[p].name = df.cols[Nth(K, p)].name
        /\ out.cols[p].cells = df.cols[Nth(K, p)].cells

\* Every numeric column's absent cells hold the statistic; other columns are as given.
FilledWith(IsStat(_, _)) ==
    /\ SameShape(Out, In)
    /\ \A j \in 1..NCols(In) :
        IF In.cols[j].dtype = "number"
        THEN \A i \in 1..NRows(In) :
                AbsentAt(In, j, i) => IsStat(Out.cols[j].cells[i], In.cols[j].cells)
        ELSE Out.cols[j] = In.cols[j]

\* The scenario of the specification: [[1, absent], [2, 4], [absent, 6]].
Scenario ==
    [index |-> <<0, 1, 2>>,
     cols |-> <<[name |-> "A", dtype |-> "number", cells |-> <<Num(1, 1), Num(2, 1), Absent>>],
                [name |-> "B", dtype |-> "number", cells |-> <<Absent, Num(4, 1), Num(6, 1)>>]>>]

(***************************** properties **********************************)
\* C1: after a fill with method 'mean', every cell that was absent in a numeric
\* column holds the arithmetic mean of that column's non-absent input values, and
\* every non-numeric column is the input column, absent cells included; in the
\* scenario, 1.5 lands in column A row 3 and 5 in column B row 1.
C1_FillMean ==
    FillReturned("mean") =>
        /\ FilledWith(IsMean)
        /\ In = Scenario =>
            /\ Out.cols[1].cells[3] = Num(3, 2)
            /\ Out.cols[2].cells[1] = Num(5, 1)

C1_Witness ==
    /\ FillReturned("mean")
    /\ In = Scenario
    /\ Out.cols[1].cells = <<Num(1, 1), Num(2, 1), Num(3, 2)>>
    /\ Out.cols[2].cells = <<Num(5, 1), Num(4, 1), Num(6, 1)>>

\* C2: after a fill with method 'constant' and fill_value v, every cell that was
\* absent, in a numeric column or not, holds v, and every cell that was present
\* is unchanged.
C2_FillConstant ==
    (FillReturned("constant") /\ TheStrategy.fill_value # {}) =>
        /\ SameShape(Out, In)
        /\ \A j \in 1..NCols(In) : \A i \in 1..NRows(In) :
            Out.cols[j].cells[i] =
                IF AbsentAt(In, j, i) THEN CHOOSE v \in TheStrategy.fill_value : TRUE
                ELSE In.cols[j].cells[i]

C2_Witness ==
    /\ FillReturned("constant")
    /\ TheStrategy.fill_value = {Num(9, 1)}
    /\ NRows(In) >= 2
    /\ In.cols[1].dtype = "number" /\ AbsentAt(In, 1, 1) /\ ~AbsentAt(In, 1, 2)
    /\ In.cols[2].dtype = "object" /\ AbsentAt(In, 2, 2) /\ ~AbsentAt(In, 2, 1)
    /\ Out.cols[1].cells[1] = Num(9, 1)
    /\ Out.cols[2].cells[2] = Num(9, 1)

\* C3: the drop strategy with axis 0 and no threshold returns exactly the rows of
\* the input that have no absent cell, in order, cells and columns unchanged.
C3_DropRowsNoThreshold ==
    (DropReturned(0) /\ TheStrategy.thresh = {}) =>
        IsRowsOf(Out, In, {i \in 1..NRows(In) : \A j \in 1..NCols(In) : ~AbsentAt(In, j, i)})

\* C4: the drop strategy with threshold k retains exactly the rows (axis 0) or the
\* columns (axis 1) with at least k non-absent cells, in their order.
C4_DropThreshold ==
    \A k \in 0..(MaxThresh + 1) :
        /\ (DropReturned(0) /\ TheStrategy.thresh = {k}) =>
              IsRowsOf(Out, In, {i \in 1..NRows(In) :
                  Cardinality({j \in 1..NCols(In) : ~AbsentAt(In, j, i)}) >= k})
        /\ (DropReturned(1) /\ TheStrategy.thresh = {k}) =>
              IsColumnsOf(Out, In, {j \in 1..NCols(In) :
                  Cardinality({i \in 1..NRows(In) : ~AbsentAt(In, j, i)}) >= k})

C4_Witness ==
    /\ DropReturned(1)
    /\ TheStrategy.thresh = {2}
    /\ NRows(In) = 3
    /\ Cardinality({i \in 1..3 : ~AbsentAt(In, 1, i)}) = 1
    /\ Cardinality({i \in 1..3 : ~AbsentAt(In, 2, i)}) = 2
    /\ NCols(Out) = 1
    /\ Out.cols[1] = In.cols[2]

\* C5: the step, called with a supported strategy name, completes without an
\* error and returns a dataset.
C5_StepCompletes ==
    (call.op = "step" /\ call.name \in SupportedNames) =>
        call.status = "returned" /\ call.ret \in DOMAIN store

\* C6: the step, called with a name that is not supported, fails with a
\* ValueError before a handler is built or invoked: nothing is returned and no
\* dataset is made.
C6_StepUnsupported ==
    (call.op = "step" /\ call.name \notin SupportedNames) =>
        /\ call.status = "raised"
        /\ call.err = "ValueError"
        /\ call.built = {}
        /\ call.ret = 0
        /\ store = (arg :> given)

C6_Witness ==
    /\ call.op = "step"
    /\ call.name = "knn"
    /\ call.err = "ValueError"
    /\ HasAbsent(given)

\* C7: after handle returns, whatever the strategy, the caller's dataset is what
\* it was before the call, and the result is another object.
C7_InputNotMutated ==
    HandleReturned =>
        /\ store[arg] = given
        /\ call.ret # arg
        /\ call.ret \in DOMAIN store

C7_Witness ==
    /\ FillReturned("mean")
    /\ HasAbsent(given)
    /\ ~HasAbsent(Out)
    /\ store[arg] = given

\* C8: after a fill with method 'mode', every cell that was absent in a numeric
\* column, at whatever row, holds a mode of that column's non-absent input
\* values, and non-numeric columns are untouched.
C8_FillMode == FillReturned("mode") => FilledWith(IsMode)

\* C9: after a fill with method 'median', every cell that was absent in a numeric
\* column holds the median of that column's non-absent input values, and
\* non-numeric columns are untouched, absent cells included.
C9_FillMedian == FillReturned("median") => FilledWith(IsMedian)

C9_Witness ==
    /\ FillReturned("median")
    /\ NRows(In) = 3
    /\ In.cols[1].cells = <<Num(1, 1), Absent, Num(2, 1)>>
    /\ In.cols[2].dtype = "object" /\ AbsentAt(In, 2, 1)
    /\ Out.cols[1].cells[2] = Num(3, 2)
    /\ Out.cols[2] = In.cols[2]

\* C10: a fill with method 'constant' and fill_value v leaves no absent cell, and
\* applied to its own result it returns the same dataset.
C10_ConstantIdempotent ==
    (HandleReturned /\ TheStrategy.method = "constant") =>
        /\ ~HasAbsent(store[IF call.pass = 2 THEN arg ELSE call.ret])
        /\ call.pass = 2 => store[call.ret] = store[arg]

C10_Witness ==
    /\ HandleReturned
    /\ call.pass = 2
    /\ TheStrategy.fill_value = {Str(2)}
    /\ HasAbsent(given)
    /\ store[arg] # given
    /\ store[call.ret] = store[arg]

\* C11: a fill strategy constructed with a method outside the allowed ones is
\* constructed all the same and holds that method as given, not 'mean'; its handle
\* returns a dataset equal to the input, absent cells still absent.
C11_InvalidMethodKept ==
    \A a \in asked :
        (a.kind = "fill" /\ a.method \notin ALLOWED_METHODS) =>
            /\ handler # {}
            /\ TheStrategy.kind = "fill"
            /\ TheStrategy.method = a.method
            /\ call.op = "handle" => (call.status = "returned" /\ Out = In)

C11_Witness ==
    /\ asked = {Args("fill", 0, {}, "knn", {})}
    /\ HandleReturned
    /\ In.cols[1].dtype = "number"
    /\ AbsentAt(In, 1, 1)
    /\ AbsentAt(Out, 1, 1)
    /\ NRows(In) = 2 /\ ~AbsentAt(In, 1, 2)

\* C12: whatever set_strategy and handle_missing_values calls came before,
\* handle_missing_values(D) ends as the handle of the strategy configured last
\* ends for D on its own, and the handler still holds that strategy unchanged.
C12_LatestStrategyDecides ==
    \A a \in asked :
        call.op = "handle" =>
            /\ handler = {Build(a)}
            /\ \E o \in Handle(Build(a), (arg :> given), arg) :
                /\ o.err = call.err
                /\ o.err = "" => o.store[o.ret] = store[call.ret]

C12_Witness ==
    /\ HandleReturned
    /\ call.pass = 2
    /\ call.name = "switched"
    /\ asked = {Args("fill", 0, {}, "mean", {})}
    /\ HasAbsent(In)
    /\ ~HasAbsent(Out)

\* C13: in every sequence of ingest calls, a call on a .zip archive returns the
\* dataset read from that archive's CSV exactly when the archive holds exactly one
\* CSV file, and fails otherwise (no CSV: FileNotFoundError, several: ValueError),
\* whatever was ingested before.
C13_IngestByArchive ==
    (call.op \in {"ingest", "step"} /\ call.pass >= 1 /\ call.name # "table") =>
        LET m == Members(call.name)
            csvs == {f \in DOMAIN m : f.ext = "csv"}
        IN  IF Cardinality(csvs) = 1
            THEN call.status = "returned"
                 /\ store[call.ret] = read_csv(m[CHOOSE f \in csvs : TRUE])
            ELSE call.status = "raised"
                 /\ call.err = IF csvs = {} THEN "FileNotFoundError" ELSE "ValueError"

\* C14: after a fill with method 'mean', 'median', 'mode' or 'constant', the
\* output has the rows, the columns and the column order of the input, and every
\* cell that was not absent holds the value it had: only absent cells change.
C14_FillChangesOnlyAbsent ==
    (HandleReturned /\ TheStrategy.kind = "fill" /\ TheStrategy.method \in ALLOWED_METHODS) =>
        /\ SameShape(Out, In)
        /\ \A j \in 1..NCols(In) : \A i \in 1..NRows(In) :
            ~AbsentAt(In, j, i) => Out.cols[j].cells[i] = In.cols[j].cells[i]

C14_Witness ==
    /\ FillReturned("median")
    /\ NRows(In) = 3
    /\ In.cols[1].dtype = "number" /\ In.cols[2].dtype = "number"
    /\ AbsentAt(In, 1, 2) /\ AbsentAt(In, 2, 3)
    /\ ~AbsentAt(In, 1, 1) /\ ~AbsentAt(In, 2, 1)
    /\ ~HasAbsent(Out)
    /\ Out.cols[1].cells[1] = In.cols[1].cells[1]

====
